---------------------------- MODULE Spec2Model ----------------------------
(***************************************************************************)
(* A model of Brute_Force_RCS/evaluation_utils.py: the statistics that     *)
(* compare the ideal output distribution of a random circuit with a        *)
(* sampled one (total variation distance, cross-entropy benchmarking       *)
(* score), the builder of the ideal distribution, the normalization        *)
(* check, and the three benchmark drivers.                                 *)
(*                                                                         *)
(* Numbers.  A Python float is modelled by an exact rational <<n, d>>      *)
(* with d > 0; rounding is not modelled.  A dict is a TLA+ function whose  *)
(* DOMAIN is the key set; a bitstring key is the sequence of its digits,   *)
(* "01" being <<0, 1>>.                                                    *)
(***************************************************************************)
EXTENDS Integers, Sequences, FiniteSets, TLC

VARIABLES
    pc,             \* position of the caller / of the running driver
    distribution1,  \* first dict argument of a metric (empirical for XEB)
    distribution2,  \* second dict argument of a metric (true for XEB)
    num_qubits,     \* the num_qubits argument
    ret,            \* what the last call returned or raised
    ret2,           \* what the call with the arguments swapped returned
    printed,        \* what has been printed so far
    qc,             \* the circuit object
    trace,          \* the calls made on or about the circuit, in order
    driver,         \* the benchmark driver that is running
    noise_rate,     \* its noise_rate argument, in call A and in call B
    shots,          \* its shots argument
    true_dist,      \* its local true_dist
    noise,          \* its local noise, in call A and in call B
    noisy_dist      \* its local noisy_dist, in call A and in call B

driverVars == <<driver, noise_rate, shots, true_dist, noise, noisy_dist>>

vars == <<pc, distribution1, distribution2, num_qubits, ret, ret2, printed,
          qc, trace, driverVars>>

(***************************************************************************)
(* Bounds of the model.                                                    *)
(***************************************************************************)
\* metric inputs take values k/Den
Den == 2
\* the values of one metric input add up to at most MaxMass/Den
MaxMass == 3
\* compute_xeb is called with num_qubits in 0..MaxN
MaxN == 2
\* circuits have 1..MaxQubits qubits
MaxQubits == 2
\* calculate_true_distribution is called at most MaxCalls times on a circuit
MaxCalls == 3
\* a driver is called with num_qubits in 1..MaxDriverQubits
MaxDriverQubits == 1
\* a driver is called with shots in 1..MaxShots
MaxShots == 2
\* the normalization check is given sums 1 + e * 1e-8, e in -MaxDev..MaxDev
MaxDev == 1100

(***************************************************************************)
(* Exact arithmetic on <<numerator, denominator>>.                         *)
(***************************************************************************)
Zero == <<0, 1>>
One == <<1, 1>>
Half == <<1, 2>>

\* a + b, over the larger denominator when it is a multiple of the other
RAdd(a, b) ==
    IF a[2] = b[2] THEN <<a[1] + b[1], a[2]>>
    ELSE IF a[2] % b[2] = 0 THEN <<a[1] + b[1] * (a[2] \div b[2]), a[2]>>
    ELSE IF b[2] % a[2] = 0 THEN <<a[1] * (b[2] \div a[2]) + b[1], b[2]>>
    ELSE <<a[1] * b[2] + b[1] * a[2], a[2] * b[2]>>

RNeg(a) == <<-a[1], a[2]>>
RSub(a, b) == RAdd(a, RNeg(b))
RMul(a, b) == <<a[1] * b[1], a[2] * b[2]>>
RAbs(a) == IF a[1] < 0 THEN RNeg(a) ELSE a
REq(a, b) == IF a[2] = b[2] THEN a[1] = b[1] ELSE a[1] * b[2] = b[1] * a[2]
RLe(a, b) == IF a[2] = b[2] THEN a[1] <= b[1] ELSE a[1] * b[2] <= b[1] * a[2]
RLt(a, b) == IF a[2] = b[2] THEN a[1] < b[1] ELSE a[1] * b[2] < b[1] * a[2]

RECURSIVE Pow2(_)
Pow2(n) == IF n = 0 THEN 1 ELSE 2 * Pow2(n - 1)

\* Python's sum(...) over the terms term[k], k in S, starting from int 0
RECURSIVE PySum(_, _)
PySum(term, S) ==
    IF S = {} THEN Zero
    ELSE LET k == CHOOSE x \in S : TRUE
         IN RAdd(term[k], PySum(term, S \ {k}))

(***************************************************************************)
(* Outcomes of a call.                                                     *)
(***************************************************************************)
NoCall == [kind |-> "none"]
NoCircuit == [kind |-> "none"]
NoDist == [kind |-> "none"]
NoNoise == [kind |-> "none"]

\* no driver is running
NoDriver ==
    /\ driver = "none"
    /\ noise_rate = <<>>
    /\ shots = 0
    /\ true_dist = NoDist
    /\ noise = <<>>
    /\ noisy_dist = <<>>
Return(v) == [kind |-> "return", val |-> v]
ValueError == [kind |-> "ValueError",
               msg |-> "Distributions must have the same basis states."]

(***************************************************************************)
(* total_variation_distance                                                *)
(***************************************************************************)
SameBasisStatesLoose(d1, d2) == (DOMAIN d1) \subseteq (DOMAIN d2)

\* keys1 != keys2 is the negation of this
SameBasisStates(d1, d2) == (DOMAIN d1) = (DOMAIN d2)

AbsDiffs(d1, d2) == [key \in DOMAIN d1 |-> RAbs(RSub(d1[key], d2[key]))]

TvdNoHalf(d1, d2) == PySum(AbsDiffs(d1, d2), DOMAIN d1)

TvdSigned(d1, d2) ==
    RMul(Half, PySum([key \in DOMAIN d1 |-> RSub(d1[key], d2[key])], DOMAIN d1))

\* tvd = 0.5 * sum(np.abs(distribution1[key] - distribution2[key]) for key in keys1)
TvdValue(d1, d2) == RMul(Half, PySum(AbsDiffs(d1, d2), DOMAIN d1))

total_variation_distance(d1, d2) ==
    IF ~SameBasisStates(d1, d2) THEN ValueError
    ELSE Return(TvdValue(d1, d2))

(***************************************************************************)
(* compute_xeb                                                             *)
(***************************************************************************)
\* dict.get(key, default)
Get(d, key, default) == IF key \in DOMAIN d THEN d[key] ELSE default

\* sum(true_distribution[state] * empirical_distribution.get(state, 0) ...)
XebSum(emp, true) ==
    PySum([state \in DOMAIN true |-> RMul(true[state], Get(emp, state, Zero))],
          DOMAIN true)

XebScoreLinear(s, n) == RSub(RMul(<<2 * n, 1>>, s), One)

\* xeb_score = (2 ** num_qubits) * xeb_sum - 1
XebScore(s, n) == RSub(RMul(<<Pow2(n), 1>>, s), One)

compute_xeb_unchecked(emp, true, n) == Return(XebScore(XebSum(emp, true), n))

compute_xeb(emp, true, n) ==
    IF ~SameBasisStates(emp, true) THEN ValueError
    ELSE Return(XebScore(XebSum(emp, true), n))

(***************************************************************************)
(* Inputs of the metrics: every dict over a key set drawn from Keys whose  *)
(* values lie on the grid k/Den and add up to at most MaxMass/Den, and     *)
(* the two worked examples of the documentation.                           *)
(***************************************************************************)
Keys == {<<0>>, <<1>>, <<0, 0>>, <<1, 1>>}

RECURSIVE NumSum(_, _)
NumSum(f, S) ==
    IF S = {} THEN 0
    ELSE LET k == CHOOSE x \in S : TRUE IN f[k] + NumSum(f, S \ {k})

GridDists ==
    UNION {{[k \in K |-> <<f[k], Den>>] :
              f \in {g \in [K -> 0..MaxMass] : NumSum(g, K) <= MaxMass}} :
           K \in SUBSET Keys}

TwoBit == {<<0, 0>>, <<0, 1>>, <<1, 0>>, <<1, 1>>}
Uniform2 == [k \in TwoBit |-> <<1, 4>>]
Point00 == [k \in TwoBit |-> IF k = <<0, 0>> THEN <<4, 4>> ELSE <<0, 4>>]

MetricInputs ==
    (GridDists \X GridDists) \cup {<<Point00, Uniform2>>, <<Uniform2, Point00>>}

InitMetric ==
    /\ pc = "ready"
    /\ \E pair \in MetricInputs :
          /\ distribution1 = pair[1]
          /\ distribution2 = pair[2]
    /\ num_qubits = 0
    /\ ret = NoCall
    /\ ret2 = NoCall
    /\ printed = <<>>
    /\ qc = NoCircuit
    /\ trace = <<>>
    /\ NoDriver

CallTvd ==
    /\ pc = "ready"
    /\ ret' = total_variation_distance(distribution1, distribution2)
    /\ pc' = "tvd"
    /\ UNCHANGED <<distribution1, distribution2, num_qubits, ret2, printed, qc, trace, driverVars>>

CallTvdSwapped ==
    /\ pc = "tvd"
    /\ ret2' = total_variation_distance(distribution2, distribution1)
    /\ pc' = "tvd_both"
    /\ UNCHANGED <<distribution1, distribution2, num_qubits, ret, printed, qc, trace, driverVars>>

CallXeb ==
    /\ pc = "ready"
    /\ \E n \in 0..MaxN :
          /\ num_qubits' = n
          /\ ret' = compute_xeb(distribution1, distribution2, n)
    /\ pc' = "xeb"
    /\ UNCHANGED <<distribution1, distribution2, ret2, printed, qc, trace, driverVars>>

NextMetric == CallTvd \/ CallTvdSwapped \/ CallXeb

SpecMetric == InitMetric /\ [][NextMetric]_vars

(***************************************************************************)
(* Claims about the metrics, checked under SpecMetric.                     *)
(***************************************************************************)
IsDistribution(d) ==
    /\ \A k \in DOMAIN d : d[k][1] >= 0
    /\ REq(PySum(d, DOMAIN d), One)

\* C1: total_variation_distance raises ValueError exactly when the key sets
\* of its arguments differ and returns a number when they are equal; when it
\* raises, no distance is produced, and the call changes neither argument.
C1_TvdRaisesIffKeysDiffer ==
    [][(pc = "ready" /\ pc' = "tvd") =>
          /\ (DOMAIN distribution1 # DOMAIN distribution2) =>
                (ret' = ValueError /\ "val" \notin DOMAIN ret')
          /\ (DOMAIN distribution1 = DOMAIN distribution2) =>
                (ret'.kind = "return" /\ ret'.val[2] > 0)
          /\ distribution1' = distribution1
          /\ distribution2' = distribution2]_vars

\* the documentation's example: {"00": 1.0} against {"0": 1.0}
C1_Witness ==
    /\ pc = "tvd"
    /\ distribution1 = (<<0, 0>> :> <<Den, Den>>)
    /\ distribution2 = (<<0>> :> <<Den, Den>>)
    /\ ret = ValueError

\* C2: compute_xeb raises ValueError whenever the key set of the empirical
\* distribution differs from that of the true distribution, whatever
\* num_qubits is; an empirical distribution that leaves out an outcome of the
\* true distribution is rejected, not read as probability 0.
C2_XebRaisesOnKeyMismatch ==
    (pc = "xeb" /\ DOMAIN distribution1 # DOMAIN distribution2) => ret = ValueError

C2_Witness ==
    /\ pc = "xeb"
    /\ num_qubits = 1
    /\ distribution2 = (<<0>> :> <<Den, Den>> @@ <<1>> :> <<0, Den>>)
    /\ distribution1 = (<<0>> :> <<Den, Den>>)
    /\ ret = ValueError

\* The sum of p[x] * q[x] over the keys S as one fraction, with integer
\* arithmetic only: RefDen is the product of all the denominators.
RECURSIVE RefDen(_, _, _)
RefDen(p, q, S) ==
    IF S = {} THEN 1
    ELSE LET x == CHOOSE y \in S : TRUE
         IN p[x][2] * q[x][2] * RefDen(p, q, S \ {x})

RECURSIVE RefNum(_, _, _)
RefNum(p, q, S) ==
    IF S = {} THEN 0
    ELSE LET x == CHOOSE y \in S : TRUE
             rest == S \ {x}
         IN p[x][1] * q[x][1] * RefDen(p, q, rest)
              + p[x][2] * q[x][2] * RefNum(p, q, rest)

\* C3: with equal key sets compute_xeb(q, p, n) returns
\* 2^n * (sum over the keys x of p[x] * q[x]) - 1; p = q = {"0": 1.0, "1": 0.0}
\* with n = 1 gives 1.0, and p uniform over the 2-bit strings with q all on
\* "00" and n = 2 gives 0.0.
C3_XebFormula ==
    (pc = "xeb" /\ DOMAIN distribution1 = DOMAIN distribution2) =>
        LET S == DOMAIN distribution2
            num == RefNum(distribution2, distribution1, S)
            den == RefDen(distribution2, distribution1, S)
        IN /\ ret.kind = "return"
           /\ REq(ret.val, <<Pow2(num_qubits) * num - den, den>>)
           /\ (distribution1 = Point00 /\ distribution2 = Uniform2 /\ num_qubits = 2)
                 => REq(ret.val, Zero)
           /\ (/\ distribution1 = (<<0>> :> <<Den, Den>> @@ <<1>> :> <<0, Den>>)
               /\ distribution2 = distribution1
               /\ num_qubits = 1) => REq(ret.val, One)

C3_Witness ==
    /\ pc = "xeb"
    /\ distribution1 = Point00
    /\ distribution2 = Uniform2
    /\ num_qubits = 2
    /\ ret.kind = "return"
    /\ ret.val[1] = 0

\* C4 as stated: total_variation_distance returns a value in [0, 1] for every
\* pair of inputs with equal key sets.
C4_TvdInUnitIntervalAlways ==
    (pc = "tvd" /\ ret.kind = "return") =>
        (RLe(Zero, ret.val) /\ RLe(ret.val, One))

\* C4 amended: the value returned is never negative, and it is at most 1 when
\* both arguments are probability distributions (entries >= 0 adding up to 1).
C4_TvdInUnitIntervalForDistributions ==
    (pc = "tvd" /\ ret.kind = "return") =>
        /\ RLe(Zero, ret.val)
        /\ (IsDistribution(distribution1) /\ IsDistribution(distribution2))
              => RLe(ret.val, One)

\* two distributions with disjoint support: the distance is exactly 1
C4_Witness ==
    /\ pc = "tvd"
    /\ IsDistribution(distribution1)
    /\ IsDistribution(distribution2)
    /\ distribution1 # distribution2
    /\ ret.kind = "return"
    /\ REq(ret.val, One)

\* C5: total_variation_distance(A, B) and total_variation_distance(B, A)
\* return the same value when the key sets are equal and raise the same
\* error when they differ.
C5_TvdSymmetric ==
    (pc = "tvd_both") =>
        /\ ret.kind = ret2.kind
        /\ (ret.kind = "return") => REq(ret.val, ret2.val)
        /\ (ret.kind = "ValueError") => ret = ret2

C5_Witness ==
    /\ pc = "tvd_both"
    /\ distribution1 # distribution2
    /\ ret.kind = "return"
    /\ ret2.kind = "return"
    /\ RLt(Zero, ret.val)

(***************************************************************************)
(* check_distribution_normalization                                        *)
(***************************************************************************)
\* the inputs of the check are multiples of 1e-8
Scale == 10^8

\* numpy.isclose's defaults: rtol = 1e-05, atol = 1e-08
RTol == <<1, 10^5>>
ATol == <<1, 10^8>>

IsCloseAbsolute(a, b) == RLe(RAbs(RSub(a, b)), ATol)

\* np.isclose(a, b): abs(a - b) <= atol + rtol * abs(b)
IsClose(a, b) == RLe(RAbs(RSub(a, b)), RAdd(ATol, RMul(RTol, RAbs(b))))

\* total_probability = sum(distribution.values())
TotalProbability(d) == PySum(d, DOMAIN d)

Warning(total) == [text |-> "Warning: Total probability is not 1.0", total |-> total]

\* every dict {"0": a, "1": b} with a in {0, 0.5} and a + b = 1 + e * 1e-8,
\* the same scaled to add up to 0.5, and the empty dict
ValidatorInputs ==
    {(<<0>> :> <<a, Scale>> @@ <<1>> :> <<Scale - a + e, Scale>>) :
        a \in {0, Scale \div 2}, e \in -MaxDev..MaxDev}
    \cup {(<<0>> :> <<Scale \div 4, Scale>> @@ <<1>> :> <<Scale \div 4, Scale>>),
          (<<0>> :> <<Scale \div 2, Scale>> @@ <<1>> :> <<0, Scale>>),
          << >>}

InitValidator ==
    /\ pc = "ready"
    /\ distribution1 \in ValidatorInputs
    /\ distribution2 = << >>
    /\ num_qubits = 0
    /\ ret = NoCall
    /\ ret2 = NoCall
    /\ printed = <<>>
    /\ qc = NoCircuit
    /\ trace = <<>>
    /\ NoDriver

check_distribution_normalization ==
    /\ pc = "ready"
    /\ LET total_probability == TotalProbability(distribution1)
       IN IF IsClose(total_probability, One)
          THEN /\ ret' = Return(TRUE)
               /\ printed' = printed
          ELSE /\ printed' = Append(printed, Warning(total_probability))
               /\ ret' = Return(FALSE)
    /\ pc' = "checked"
    /\ UNCHANGED <<distribution1, distribution2, num_qubits, ret2, qc, trace, driverVars>>

NextValidator == check_distribution_normalization

SpecValidator == InitValidator /\ [][NextValidator]_vars

\* the sum of the values of the validator's argument, in units of 1e-8
Ticks(d) == NumSum([k \in DOMAIN d |-> d[k][1]], DOMAIN d)

\* C7 as stated: the check returns true exactly when the sum of the values is
\* within 1e-8 of 1.0, and a sum further than 1e-8 from 1.0 is never accepted.
C7_AcceptsWithinAbsoluteTolerance ==
    (pc = "checked") =>
        (ret.val <=> (Ticks(distribution1) - Scale <= 1 /\ Scale - Ticks(distribution1) <= 1))

\* C7 amended: the check returns true, printing nothing, exactly when the sum
\* is within 1e-8 + 1e-5 * 1.0 = 1.001e-5 of 1.0 (numpy.isclose's default
\* absolute and relative tolerance); for every other sum it prints one
\* warning and returns false.  A sum of 1 is accepted, a sum of 0.5 is not.
C7_AcceptsWithinIscloseTolerance ==
    (pc = "checked") =>
        LET s == Ticks(distribution1)
            close == (s - Scale <= 1001 /\ Scale - s <= 1001)
        IN /\ ret.kind = "return"
           /\ ret.val <=> close
           /\ close => printed = <<>>
           /\ ~close => (Len(printed) = 1 /\ printed[1].total = TotalProbability(distribution1))
           /\ (s = Scale) => ret.val
           /\ (s = Scale \div 2) => ~ret.val

\* a sum 1.001e-5 above 1.0 is still accepted
C7_Witness ==
    /\ pc = "checked"
    /\ Ticks(distribution1) = Scale + 1001
    /\ ret = Return(TRUE)
    /\ printed = <<>>

(***************************************************************************)
(* calculate_true_distribution                                             *)
(*                                                                         *)
(* A circuit is its qubit count, the probabilities its measurement-free    *)
(* statevector gives (they stand for its gates) and whether it ends in     *)
(* measurements.                                                           *)
(***************************************************************************)
QiskitError == [kind |-> "QiskitError",
                msg |-> "Cannot apply instruction with classical bits: measure"]

Event(op, c) == [op |-> op, measured |-> c.measured]

KeepFinalMeasurements(c) == c

\* qc.remove_final_measurements()
RemoveFinalMeasurements(c) == [c EXCEPT !.measured = FALSE]

MeasureNothing(c) == c

\* qc.measure_all()
MeasureAll(c) == [c EXCEPT !.measured = TRUE]

\* Statevector(qc).probabilities(); a circuit with measurements is refused
Statevector(c) == IF c.measured THEN QiskitError ELSE Return(c.probs)

\* the binary digits of i, most significant first
RECURSIVE Bin(_)
Bin(i) == IF i < 2 THEN <<i>> ELSE Append(Bin(i \div 2), i % 2)

RECURSIVE PadLeft(_, _)
PadLeft(digits, width) ==
    IF Len(digits) >= width THEN digits ELSE PadLeft(<<0>> \o digits, width)

FormatUnpadded(i, n) == Bin(i)

\* format(i, f'0{num_qubits}b')
Format(i, n) == PadLeft(Bin(i), n)

\* basis_states, index i of the list at position i + 1
BasisStates(n) == [j \in 1..Pow2(n) |-> Format(j - 1, n)]

Max(S) == CHOOSE x \in S : \A y \in S : y <= x

\* {basis_states[i]: probabilities[i] for i in range(len(probabilities))}:
\* a key written twice keeps its last value
TrueDistribution(basis_states, probabilities) ==
    LET idx == 1..Len(probabilities)
    IN [k \in {basis_states[j] : j \in idx} |->
           probabilities[Max({j \in idx : basis_states[j] = k})]]

\* the circuit as the call leaves it, what the call returns, and its calls
calculate_true_distribution(c) ==
    LET stripped == RemoveFinalMeasurements(c)
        probabilities == Statevector(stripped)
    IN [qc |-> stripped,
        ret |-> IF probabilities.kind = "return"
                THEN Return(TrueDistribution(BasisStates(c.num_qubits),
                                             probabilities.val))
                ELSE probabilities,
        events |-> <<Event("remove_final_measurements", c),
                     Event("Statevector", stripped)>>]

\* the probability vectors of length len on the grid k/Den that add up to 1
RECURSIVE Compositions(_, _)
Compositions(len, total) ==
    IF len = 0 THEN (IF total = 0 THEN {<<>>} ELSE {})
    ELSE UNION {{<<k>> \o rest : rest \in Compositions(len - 1, total - k)} :
                k \in 0..total}

Probabilities(n) ==
    {[j \in 1..Pow2(n) |-> <<c[j], Den>>] : c \in Compositions(Pow2(n), Den)}

Circuits(n) ==
    [num_qubits : {n}, probs : Probabilities(n), measured : BOOLEAN]

InitBuilder ==
    /\ pc = "ready"
    /\ \E n \in 1..MaxQubits : qc \in Circuits(n)
    /\ distribution1 = << >>
    /\ distribution2 = << >>
    /\ num_qubits = 0
    /\ ret = NoCall
    /\ ret2 = NoCall
    /\ printed = <<>>
    /\ trace = <<>>
    /\ NoDriver

Calls(t) == Cardinality({j \in 1..Len(t) : t[j].op = "Statevector"})

CallBuilder ==
    /\ pc \in {"ready", "built"}
    /\ Calls(trace) < MaxCalls
    /\ LET call == calculate_true_distribution(qc)
       IN /\ qc' = call.qc
          /\ ret' = call.ret
          /\ trace' = trace \o call.events
    /\ pc' = "built"
    /\ UNCHANGED <<distribution1, distribution2, num_qubits, ret2, printed, driverVars>>

\* the caller puts the measurements back between two calls
CallerMeasureAll ==
    /\ pc = "built"
    /\ Calls(trace) < MaxCalls
    /\ ~qc.measured
    /\ qc' = MeasureAll(qc)
    /\ trace' = Append(trace, Event("measure_all", qc))
    /\ pc' = "ready"
    /\ UNCHANGED <<distribution1, distribution2, num_qubits, ret, ret2, printed, driverVars>>

NextBuilder == CallBuilder \/ CallerMeasureAll

SpecBuilder == InitBuilder /\ [][NextBuilder]_vars

\* the integer a bitstring key denotes
RECURSIVE Decode(_)
Decode(key) ==
    IF key = <<>> THEN 0 ELSE 2 * Decode(SubSeq(key, 1, Len(key) - 1)) + key[Len(key)]

C10_BuilderIdempotent ==
    [][(pc' = "built") =>
          /\ ~qc'.measured
          /\ ret'.kind = "return"
          /\ (pc = "built") => qc' = qc
          /\ (ret.kind = "return") => ret' = ret]_vars

\* two calls in a row on a circuit that had measurements at first
C10_Witness ==
    /\ pc = "built"
    /\ Len(trace) = 4
    /\ trace[1].measured
    /\ trace[3].op = "remove_final_measurements"
    /\ ~trace[3].measured
    /\ ~qc.measured
    /\ ret.kind = "return"

(***************************************************************************)
(* The benchmark drivers.                                                  *)
(*                                                                         *)
(* random_circuit, create_noise_model and generate_emp_distribution live   *)
(* in circuit_utils; they are modelled from their documented contracts.    *)
(* depth is only handed on to them and is left out.                        *)
(*                                                                         *)
(* Two calls of one driver, A and B, that differ in noise_rate alone are   *)
(* followed side by side on the same random circuit.  The sampler is a     *)
(* function of its arguments and of its random draws: handed the same      *)
(* circuit, shots and noise model it gives B what it gave A.               *)
(***************************************************************************)
Drivers ==
    {"tvd_truedist_empdist", "xeb_truedist_empdist_noisy", "xeb_truedist_empdist_ideal"}

\* the noise rates a caller passes: 0.0 and 0.01
Rates == {Zero, <<1, 100>>}

\* random_circuit(num_qubits, depth)
random_circuit(n) == Circuits(n)

\* create_noise_model(rate)
create_noise_model(rate) == [kind |-> "NoiseModel", rate |-> rate]

SamplerError == [kind |-> "SamplerError", msg |-> "the circuit has no measurements"]

\* generate_emp_distribution(qc, shots, noise, depth): the frequencies of the
\* outcomes of the shots, with or without the outcomes that were never seen
generate_emp_distribution(c, nshots) ==
    IF ~c.measured THEN {SamplerError}
    ELSE LET basis == BasisStates(c.num_qubits)
             idx == 1..Pow2(c.num_qubits)
         IN UNION {{Return([k \in {basis[j] : j \in idx} |->
                              <<counts[CHOOSE j \in idx : basis[j] = k], nshots>>]),
                    Return([k \in {basis[j] : j \in {i \in idx : counts[i] > 0}} |->
                              <<counts[CHOOSE j \in idx : basis[j] = k], nshots>>])} :
                   counts \in Compositions(Pow2(c.num_qubits), nshots)}

NoiseRateArgAsPassed(d, rate) == rate

\* the argument of create_noise_model: noise_rate, but 0.0 in the ideal driver
NoiseRateArg(d, rate) == IF d = "xeb_truedist_empdist_ideal" THEN Zero ELSE rate

\* the last statement of a driver
Metric(d, noisy, true, n) ==
    IF d = "tvd_truedist_empdist" THEN total_variation_distance(noisy, true)
    ELSE compute_xeb(noisy, true, n)

InitDriver ==
    /\ pc = "called"
    /\ driver \in Drivers
    /\ num_qubits \in 1..MaxDriverQubits
    /\ noise_rate \in Rates \X Rates
    /\ shots \in 1..MaxShots
    /\ true_dist = NoDist
    /\ noise = <<NoNoise, NoNoise>>
    /\ noisy_dist = <<NoDist, NoDist>>
    /\ qc = NoCircuit
    /\ trace = <<>>
    /\ distribution1 = << >>
    /\ distribution2 = << >>
    /\ ret = NoCall
    /\ ret2 = NoCall
    /\ printed = <<>>

\* qc = random_circuit(num_qubits, depth)
DriverRandomCircuit ==
    /\ pc = "called"
    /\ \E c \in random_circuit(num_qubits) :
          /\ qc' = c
          /\ trace' = Append(trace, Event("random_circuit", c))
    /\ pc' = "generated"
    /\ UNCHANGED <<distribution1, distribution2, num_qubits, ret, ret2, printed,
                   driver, noise_rate, shots, true_dist, noise, noisy_dist>>

\* true_dist = calculate_true_distribution(qc)
DriverTrueDistribution ==
    /\ pc = "generated"
    /\ LET call == calculate_true_distribution(qc)
       IN /\ qc' = call.qc
          /\ trace' = trace \o call.events
          /\ IF call.ret.kind = "return"
             THEN /\ true_dist' = call.ret.val
                  /\ pc' = "true_done"
                  /\ UNCHANGED <<ret, ret2>>
             ELSE /\ ret' = call.ret
                  /\ ret2' = call.ret
                  /\ pc' = "raised"
                  /\ UNCHANGED true_dist
    /\ UNCHANGED <<distribution1, distribution2, num_qubits, printed,
                   driver, noise_rate, shots, noise, noisy_dist>>

\* qc.measure_all()
DriverMeasureAll ==
    /\ pc = "true_done"
    /\ qc' = MeasureAll(qc)
    /\ trace' = Append(trace, Event("measure_all", qc))
    /\ pc' = "measured"
    /\ UNCHANGED <<distribution1, distribution2, num_qubits, ret, ret2, printed,
                   driver, noise_rate, shots, true_dist, noise, noisy_dist>>

\* noise = create_noise_model(noise_rate), or create_noise_model(0.0)
DriverNoiseModel ==
    /\ pc = "measured"
    /\ noise' = <<create_noise_model(NoiseRateArg(driver, noise_rate[1])),
                  create_noise_model(NoiseRateArg(driver, noise_rate[2]))>>
    /\ trace' = Append(trace, Event("create_noise_model", qc))
    /\ pc' = "noise_made"
    /\ UNCHANGED <<distribution1, distribution2, num_qubits, ret, ret2, printed,
                   qc, driver, noise_rate, shots, true_dist, noisy_dist>>

\* noisy_dist = generate_emp_distribution(qc, shots, noise, depth)
DriverSample ==
    /\ pc = "noise_made"
    /\ \E a \in generate_emp_distribution(qc, shots) :
       \E b \in (IF noise[1] = noise[2] THEN {a}
                 ELSE generate_emp_distribution(qc, shots)) :
          IF a.kind = "return"
          THEN /\ noisy_dist' = <<a.val, b.val>>
               /\ pc' = "sampled"
               /\ UNCHANGED <<ret, ret2>>
          ELSE /\ ret' = a
               /\ ret2' = b
               /\ pc' = "raised"
               /\ UNCHANGED noisy_dist
    /\ trace' = Append(trace, Event("generate_emp_distribution", qc))
    /\ UNCHANGED <<distribution1, distribution2, num_qubits, printed,
                   qc, driver, noise_rate, shots, true_dist, noise>>

\* TVD = total_variation_distance(noisy_dist, true_dist), or
\* XEB = compute_xeb(noisy_dist, true_dist, num_qubits), and the return
DriverMetric ==
    /\ pc = "sampled"
    /\ ret' = Metric(driver, noisy_dist[1], true_dist, num_qubits)
    /\ ret2' = Metric(driver, noisy_dist[2], true_dist, num_qubits)
    /\ trace' = Append(trace, Event("metric", qc))
    /\ pc' = "done"
    /\ UNCHANGED <<distribution1, distribution2, num_qubits, printed,
                   qc, driver, noise_rate, shots, true_dist, noise, noisy_dist>>

NextDriver ==
    \/ DriverRandomCircuit
    \/ DriverTrueDistribution
    \/ DriverMeasureAll
    \/ DriverNoiseModel
    \/ DriverSample
    \/ DriverMetric

SpecDriver == InitDriver /\ [][NextDriver]_vars

\* the calls of one run of a driver, in the order of its statements
DriverOrder ==
    <<"random_circuit", "remove_final_measurements", "Statevector", "measure_all",
      "create_noise_model", "generate_emp_distribution", "metric">>

\* C8: in every run of each driver the circuit is generated, stripped of its
\* measurements and simulated, measured again, the noise model is made, the
\* circuit is sampled and the metric is computed, in this order and on one
\* circuit: the circuit has no measurements when its statevector is taken,
\* has them when it is handed to the sampler, and the metric is computed
\* only once both distributions exist.
C8_DriverStepsInOrder ==
    /\ Len(trace) <= Len(DriverOrder)
    /\ \A j \in 1..Len(trace) :
          /\ trace[j].op = DriverOrder[j]
          /\ (trace[j].op = "Statevector") => ~trace[j].measured
          /\ (trace[j].op = "generate_emp_distribution") => trace[j].measured
    /\ (ret # NoCall \/ ret2 # NoCall) =>
          /\ pc = "done"
          /\ Len(trace) = Len(DriverOrder)
          /\ true_dist # NoDist
          /\ noisy_dist[1] # NoDist
          /\ noisy_dist[2] # NoDist
    /\ (pc = "done") => (ret # NoCall /\ ret2 # NoCall)
    /\ pc # "raised"

\* a finished run whose random circuit came with measurements
C8_Witness ==
    /\ pc = "done"
    /\ driver = "tvd_truedist_empdist"
    /\ trace[1].measured
    /\ ~trace[3].measured
    /\ trace[6].measured
    /\ ret.kind = "return"

\* C9: the ideal driver makes its noise model with rate 0.0 whatever
\* noise_rate it is called with, so two calls that differ in noise_rate alone
\* hand the sampler the same noise model and, the circuit and the sampler's
\* draws being the same, return the same score; the other two drivers make
\* the noise model with the noise_rate they are called with.
C9_IdealDriverIgnoresNoiseRate ==
    /\ (pc \in {"noise_made", "sampled", "done"}) =>
          IF driver = "xeb_truedist_empdist_ideal"
          THEN /\ noise[1] = create_noise_model(Zero)
               /\ noise[2] = noise[1]
          ELSE /\ noise[1] = create_noise_model(noise_rate[1])
               /\ noise[2] = create_noise_model(noise_rate[2])
    /\ (pc = "done" /\ driver = "xeb_truedist_empdist_ideal") =>
          /\ noisy_dist[1] = noisy_dist[2]
          /\ ret = ret2

\* two calls of the ideal driver with different noise rates, both finished
C9_Witness ==
    /\ pc = "done"
    /\ driver = "xeb_truedist_empdist_ideal"
    /\ noise_rate[1] # noise_rate[2]
    /\ noise_rate[1] # Zero
    /\ noise[1].rate = Zero
    /\ ret.kind = "return"
    /\ ret = ret2

\* the noisy driver can tell the two calls apart
NoisyDriverDepends ==
    /\ pc = "done"
    /\ driver = "xeb_truedist_empdist_noisy"
    /\ noise[1] # noise[2]
    /\ ret.kind = "return"
    /\ ret2.kind = "return"
    /\ ret # ret2

=============================================================================
